---- MODULE Spec2Model ----
(***************************************************************************)
(* Model of src/src/components/CreateItineraryModal.tsx: the component's   *)
(* React state, its three requests in flight (spot fetch, preference       *)
(* fetch, itinerary insert) and its handlers; and of the request handler   *)
(* of src/supabase/functions/send-verification-email/index.ts.             *)
(*                                                                         *)
(* Conventions                                                             *)
(*  - a JavaScript string is a sequence of one-character strings;          *)
(*  - an optional value (null / undefined / missing field) is None == <<>> *)
(*    and a present value v is Some(v) == <<v>>;                           *)
(*  - scores are counted in units of 1/Scale points (half points), so that *)
(*    rating / 2 stays an integer; ratings are whole numbers.              *)
(***************************************************************************)
EXTENDS Integers, Sequences, FiniteSets, TLC

\* ------------------------------------------------------------------ bounds
\* spots in the catalogue the main specification's store can return
MaxSpots == 2
\* size of the largest candidate pool of the auto-select specification
MaxPool == 9
\* most requests of one kind (spot fetch, preference fetch) in flight at once
MaxInFlight == 2

\* ------------------------------------------------------- program constants
\* slice(0, 8): the number of spots auto-select keeps
TopK == 8
\* spot.rating / 2: the divisor of the rating boost; scores are in 1/Scale points
Scale == 2
\* matches.length * 3
ActivityWeight == 3
\* score += 2 (budget), matches.length * 2 (scenery), score += 2 (hidden gem)
BudgetWeight == 2
SceneryWeight == 2
HiddenGemWeight == 2

\* --------------------------------------------------------------- optionals
None == <<>>
Some(v) == <<v>>
IsSome(o) == o # None
Get(o) == o[1]

\* ----------------------------------------------------------------- strings
\* String.prototype.toLowerCase on one character of the model's alphabet
LowerChar(c) ==
  CASE c = "H" -> "h"
    [] c = "N" -> "n"
    [] c = "F" -> "f"
    [] c = "L" -> "l"
    [] c = "I" -> "i"
    [] OTHER -> c

\* String.prototype.toLowerCase
ToLowerCase(s) == [i \in 1..Len(s) |-> LowerChar(s[i])]

\* String.prototype.includes: sub occurs in s as a contiguous substring
StrIncludes(s, sub) ==
  \E i \in 0..(Len(s) - Len(sub)) : SubSeq(s, i + 1, i + Len(sub)) = sub

\* whitespace characters removed by String.prototype.trim
IsSpace(c) == c = " "

RECURSIVE TrimStart(_)
TrimStart(s) ==
  IF s # <<>> /\ IsSpace(Head(s)) THEN TrimStart(Tail(s)) ELSE s

RECURSIVE TrimEnd(_)
TrimEnd(s) ==
  IF s # <<>> /\ IsSpace(s[Len(s)]) THEN TrimEnd(SubSeq(s, 1, Len(s) - 1)) ELSE s

\* String.prototype.trim
Trim(s) == TrimEnd(TrimStart(s))

\* Array.prototype.includes on a list
ListIncludes(list, x) == \E i \in 1..Len(list) : list[i] = x

\* --------------------------------------------------------------- the store
Hiking == <<"H", "i">>
HikingTrail == <<"h", "i", "t">>
Nature == <<"N", "a">>
Food == <<"F">>
Low == <<"l", "o">>
LowUpper == <<"L", "o">>
High == <<"h", "g">>
Coastal == <<"c">>
Mountain == <<"m">>

CategoryOf(i) ==
  CASE i % 5 = 1 -> <<Hiking, HikingTrail>>
    [] i % 5 = 2 -> <<Nature, Hiking>>
    [] i % 5 = 3 -> <<Hiking, Food>>
    [] i % 5 = 4 -> <<Food>>
    [] OTHER -> <<>>

BudgetOf(i) ==
  CASE i % 4 = 1 -> Some(Low)
    [] i % 4 = 2 -> Some(LowUpper)
    [] i % 4 = 3 -> None
    [] OTHER -> Some(High)

SceneryOf(i) ==
  CASE i % 3 = 1 -> <<Coastal>>
    [] i % 3 = 2 -> <<Coastal, Mountain>>
    [] OTHER -> <<>>

\* rows come ordered by rating descending, rows without a rating first
RatingOf(i) ==
  IF i = 1 THEN None
  ELSE Some(IF 5 - ((i - 2) \div 2) > 0 THEN 5 - ((i - 2) \div 2) ELSE 0)

\* the TouristSpot row with identifier i (the fields the component reads)
Spot(i) ==
  [id |-> i,
   category |-> CategoryOf(i),
   budget_level |-> BudgetOf(i),
   scenery_type |-> SceneryOf(i),
   is_hidden_gem |-> (i % 2 = 0),
   rating |-> RatingOf(i)]

\* rows a..b of tourist_spots, in the order the query returns them (the
\* table grows and shrinks at its end between two queries)
Rows(a, b) == [k \in 1..(b - a + 1) |-> Spot(a + k - 1)]

\* ------------------------------------------------------------- preferences
NoPreferences == [preferredActivities |-> None, budgetRange |-> None,
                  sceneryType |-> None, hiddenGems |-> FALSE]

ActivityLists == {None, Some(<<>>), Some(<<<<"h", "i">>>>),
                  Some(<<<<"H", "I">>, <<"f">>>>)}

\* the preference records a profile row can hold
PreferenceRecords ==
  [preferredActivities : ActivityLists,
   budgetRange : {None, Some(<<>>), Some(Low)},
   sceneryType : {None, Some(<<Coastal>>)},
   hiddenGems : BOOLEAN]

\* ------------------------------------------------------------------ scorer
\* a mutant of ActivityMatches: the comparison keeps the case
ActivityMatchesExactCase(spot, activity) ==
  \E j \in 1..Len(spot.category) : StrIncludes(spot.category[j], activity)

\* activity matches a category tag of the spot, case-insensitively
ActivityMatches(spot, activity) ==
  \E j \in 1..Len(spot.category) :
    StrIncludes(ToLowerCase(spot.category[j]), ToLowerCase(activity))

\* a string used as a condition: null, undefined and "" are falsy
TruthyString(o) == IsSome(o) /\ Get(o) # <<>>

ActivityScore(spot, prefs) ==
  IF IsSome(prefs.preferredActivities)
  THEN LET activities == Get(prefs.preferredActivities)
           \* preferredActivities.filter(...): the entries kept
           matches == {k \in 1..Len(activities) : ActivityMatches(spot, activities[k])}
       IN Cardinality(matches) * ActivityWeight * Scale
  ELSE 0

BudgetScore(spot, prefs) ==
  IF TruthyString(prefs.budgetRange) /\ TruthyString(spot.budget_level)
     /\ ToLowerCase(Get(spot.budget_level)) = ToLowerCase(Get(prefs.budgetRange))
  THEN BudgetWeight * Scale
  ELSE 0

SceneryScore(spot, prefs) ==
  IF IsSome(prefs.sceneryType)
  THEN LET \* spot.scenery_type.filter(...): the entries kept
           matches == {k \in 1..Len(spot.scenery_type) :
                         ListIncludes(Get(prefs.sceneryType), spot.scenery_type[k])}
       IN Cardinality(matches) * SceneryWeight * Scale
  ELSE 0

HiddenGemScore(spot, prefs) ==
  IF prefs.hiddenGems /\ spot.is_hidden_gem THEN HiddenGemWeight * Scale ELSE 0

\* spot.rating / 2, in 1/Scale points; a rating of 0 is falsy
RatingScore(spot) ==
  IF IsSome(spot.rating) /\ Get(spot.rating) # 0 THEN Get(spot.rating) ELSE 0

\* a mutant of scoreSpot: the rating boost is added on the random path too
scoreSpotBoostingRandom(spot, userPrefs, rnd) ==
  IF ~IsSome(userPrefs) THEN rnd + RatingScore(spot)
  ELSE ActivityScore(spot, Get(userPrefs)) + BudgetScore(spot, Get(userPrefs))
       + SceneryScore(spot, Get(userPrefs)) + HiddenGemScore(spot, Get(userPrefs))
       + RatingScore(spot)

\* scoreSpot with the record userPreferences (None when unset) and rnd the
\* value Math.random() would return, in 1/Scale points (0 <= rnd < Scale)
scoreSpot(spot, userPrefs, rnd) ==
  IF ~IsSome(userPrefs) THEN rnd
  ELSE ActivityScore(spot, Get(userPrefs)) + BudgetScore(spot, Get(userPrefs))
       + SceneryScore(spot, Get(userPrefs)) + HiddenGemScore(spot, Get(userPrefs))
       + RatingScore(spot)

\* the values Math.random() can return, in 1/Scale points
RandomValues == 0..(Scale - 1)

\* ---------------------------------------------------------------- selector
\* a mutant of SortByScoreDesc: the comparator is a.score - b.score
SortByScoreAsc(items) ==
  LET Insert(sorted, x) ==
        LET k == Cardinality({i \in 1..Len(sorted) : sorted[i].score <= x.score})
        IN SubSeq(sorted, 1, k) \o <<x>> \o SubSeq(sorted, k + 1, Len(sorted))
      S[n \in 0..Len(items)] ==
        IF n = 0 THEN <<>> ELSE Insert(S[n - 1], items[n])
  IN S[Len(items)]

\* Array.prototype.sort with the comparator (a, b) => b.score - a.score:
\* descending by score, equal scores keeping their order (the sort is stable)
SortByScoreDesc(items) ==
  LET Insert(sorted, x) ==
        LET k == Cardinality({i \in 1..Len(sorted) : sorted[i].score >= x.score})
        IN SubSeq(sorted, 1, k) \o <<x>> \o SubSeq(sorted, k + 1, Len(sorted))
      S[n \in 0..Len(items)] ==
        IF n = 0 THEN <<>> ELSE Insert(S[n - 1], items[n])
  IN S[Len(items)]

\* Array.prototype.slice(0, k)
SliceTo(list, k) == SubSeq(list, 1, IF Len(list) < k THEN Len(list) ELSE k)

\* the pairs {spot, score} of handleAutoSelect, rnd[i] being the i-th
\* Math.random() draw
ScoredSpots(pool, userPrefs, rnd) ==
  [i \in 1..Len(pool) |-> [spot |-> pool[i], score |-> scoreSpot(pool[i], userPrefs, rnd[i])]]

\* the identifiers handleAutoSelect selects
TopSpotIds(pool, userPrefs, rnd) ==
  LET top == SliceTo(SortByScoreDesc(ScoredSpots(pool, userPrefs, rnd)), TopK)
  IN {top[i].spot.id : i \in 1..Len(top)}

\* ---------------------------------------------------------- selection set
\* a mutant of ToggleSet: the identifier is added, never removed
ToggleSetAddOnly(selected, spotId) == selected \cup {spotId}

\* toggleSpot: the set with spotId removed if present, added otherwise
ToggleSet(selected, spotId) ==
  IF spotId \in selected THEN selected \ {spotId} ELSE selected \cup {spotId}

\* ------------------------------------------------------------- persistence
\* Array.prototype.flatMap((s) => s.category)
FlatCategories(list) ==
  LET F[k \in 0..Len(list)] ==
        IF k = 0 THEN <<>> ELSE F[k - 1] \o list[k].category
  IN F[Len(list)]

\* a mutant of Unique: the list is spread without new Set()
UniqueKeepingAll(list) == list

\* [...new Set(list)]: the first occurrence of each element, in order
Unique(list) ==
  LET F[k \in 0..Len(list)] ==
        IF k = 0 THEN <<>>
        ELSE IF ListIncludes(F[k - 1], list[k]) THEN F[k - 1]
        ELSE Append(F[k - 1], list[k])
  IN F[Len(list)]

\* spots.filter((spot) => selectedSpots.has(spot.id))
SelectedSpotData(pool, selected) ==
  LET F[k \in 0..Len(pool)] ==
        IF k = 0 THEN <<>>
        ELSE F[k - 1] \o (IF pool[k].id \in selected THEN <<pool[k]>> ELSE <<>>)
  IN F[Len(pool)]

\* the row handleCreateItinerary inserts; selection is not part of the row:
\* it records the selection set the handler read
ItineraryRow(name, pool, selected) ==
  [name |-> name,
   spots |-> SelectedSpotData(pool, selected),
   selected_categories |-> Unique(FlatCategories(SelectedSpotData(pool, selected))),
   selection |-> selected]

\* ------------------------------------------------------------------- state
VARIABLES
  open,             \* the open prop, as the parent last set it
  itineraryName,    \* useState("")
  loading,          \* useState(false)
  spots,            \* useState([])
  selectedSpots,    \* useState(new Set())
  fetchingSpots,    \* useState(false)
  userPreferences,  \* useState(null)
  spotFetches,      \* tourist_spots queries in flight
  prefFetches,      \* profiles queries in flight
  inserts,          \* itineraries inserts in flight (the rows sent)
  toast,            \* the notification the last step showed, "none" if none
  onSuccessCalled,  \* whether the last step called the onSuccess prop
  sessionEnd,       \* how the flow was last closed
  toggled,          \* the identifier the last step toggled, 0 if it toggled none
  scores            \* the scores the last step computed, one per spot of the list

\* the send-verification-email function, one request
VARIABLES
  request,          \* the request received and what its environment will answer
  pc,               \* where the handler is: "idle", "received", "readingBody",
                    \* "sending", "done"
  verification,     \* what wh.verify did: "none" (not called), "passed", "failed"
  logs,             \* the console lines written, in order
  emailHtml,        \* the template rendered, None before
  sends,            \* calls of resend.emails.send
  response          \* the Response returned, None before

emailVars == <<request, pc, verification, logs, emailHtml, sends, response>>

vars == <<open, itineraryName, loading, spots, selectedSpots, fetchingSpots,
          userPreferences, spotFetches, prefFetches, inserts, toast,
          onSuccessCalled, sessionEnd, toggled, scores, emailVars>>

\* the component's variables
modalVars == <<open, itineraryName, loading, spots, selectedSpots, fetchingSpots,
               userPreferences, spotFetches, prefFetches, inserts, toast,
               onSuccessCalled, sessionEnd, toggled, scores>>

\* no request has reached the function
EmailIdle ==
  /\ request = None
  /\ pc = "idle"
  /\ verification = "none"
  /\ logs = <<>>
  /\ emailHtml = None
  /\ sends = 0
  /\ response = None

\* a step that shows nothing, calls no prop, toggles nothing and scores nothing
Silent == toast' = "none" /\ onSuccessCalled' = FALSE /\ toggled' = 0 /\ scores' = <<>>

\* a step that only shows the notification msg
Shows(msg) == toast' = msg /\ onSuccessCalled' = FALSE /\ toggled' = 0 /\ scores' = <<>>

\* the values typed into the name input
Names == {<<>>, <<" ">>, <<" ", "a">>}

\* the lists a tourist_spots query can return
SpotLists == {Rows(1, n) : n \in 0..MaxSpots}

\* the user_preferences || onboarding_answers values a profile row can give
ProfileValues ==
  {None,
   Some([preferredActivities |-> Some(<<<<"h", "i">>>>), budgetRange |-> Some(Low),
         sceneryType |-> None, hiddenGems |-> TRUE])}

Init ==
  /\ open = FALSE
  /\ itineraryName = <<>>
  /\ loading = FALSE
  /\ spots = <<>>
  /\ selectedSpots = {}
  /\ fetchingSpots = FALSE
  /\ userPreferences = None
  /\ spotFetches = 0
  /\ prefFetches = 0
  /\ inserts = {}
  /\ toast = "none"
  /\ onSuccessCalled = FALSE
  /\ sessionEnd = "none"
  /\ toggled = 0
  /\ scores = <<>>
  /\ EmailIdle

\* ----------------------------------------------------------------- actions
\* the parent sets open to true; the effect on [open] starts both fetches,
\* and fetchSpots sets the fetching flag before it awaits
Open ==
  /\ ~open
  /\ spotFetches < MaxInFlight
  /\ prefFetches < MaxInFlight
  /\ open' = TRUE
  /\ prefFetches' = prefFetches + 1
  /\ spotFetches' = spotFetches + 1
  /\ fetchingSpots' = TRUE
  /\ Silent
  /\ UNCHANGED <<itineraryName, loading, spots, selectedSpots, userPreferences,
                 inserts, sessionEnd>>
  /\ UNCHANGED emailVars

\* the Cancel button (or the dialog's own close): onOpenChange(false)
Cancel ==
  /\ open
  /\ open' = FALSE
  /\ sessionEnd' = "cancelled"
  /\ Silent
  /\ UNCHANGED <<itineraryName, loading, spots, selectedSpots, fetchingSpots,
                 userPreferences, spotFetches, prefFetches, inserts>>
  /\ UNCHANGED emailVars

\* the name input's onChange
SetItineraryName(name) ==
  /\ open
  /\ name # itineraryName
  /\ itineraryName' = name
  /\ Silent
  /\ UNCHANGED <<open, loading, spots, selectedSpots, fetchingSpots, userPreferences,
                 spotFetches, prefFetches, inserts, sessionEnd>>
  /\ UNCHANGED emailVars

\* fetchUserPreferences resumes: with no data the state is kept, with a row
\* the state becomes user_preferences || onboarding_answers
FetchUserPreferencesDone(hasData, value) ==
  /\ prefFetches > 0
  /\ prefFetches' = prefFetches - 1
  /\ userPreferences' = IF hasData THEN value ELSE userPreferences
  /\ Silent
  /\ UNCHANGED <<open, itineraryName, loading, spots, selectedSpots, fetchingSpots,
                 spotFetches, inserts, sessionEnd>>
  /\ UNCHANGED emailVars

\* a mutant of FetchSpotsFailed: the error path returns before
\* setFetchingSpots(false)
FetchSpotsFailedEarlyReturn ==
  /\ spotFetches > 0
  /\ spotFetches' = spotFetches - 1
  /\ Shows("Failed to fetch tourist spots")
  /\ UNCHANGED <<open, itineraryName, loading, spots, selectedSpots, fetchingSpots,
                 userPreferences, prefFetches, inserts, sessionEnd>>
  /\ UNCHANGED emailVars

\* fetchSpots resumes with an error
FetchSpotsFailed ==
  /\ spotFetches > 0
  /\ spotFetches' = spotFetches - 1
  /\ Shows("Failed to fetch tourist spots")
  /\ fetchingSpots' = FALSE
  /\ UNCHANGED <<open, itineraryName, loading, spots, selectedSpots, userPreferences,
                 prefFetches, inserts, sessionEnd>>
  /\ UNCHANGED emailVars

\* fetchSpots resumes with data (None for null): setSpots(data || [])
FetchSpotsDone(data) ==
  /\ spotFetches > 0
  /\ spotFetches' = spotFetches - 1
  /\ spots' = IF IsSome(data) THEN Get(data) ELSE <<>>
  /\ fetchingSpots' = FALSE
  /\ Silent
  /\ UNCHANGED <<open, itineraryName, loading, selectedSpots, userPreferences,
                 prefFetches, inserts, sessionEnd>>
  /\ UNCHANGED emailVars

\* the Auto-Select button, disabled while fetchingSpots
handleAutoSelect(rnd) ==
  /\ open
  /\ ~fetchingSpots
  /\ selectedSpots' = TopSpotIds(spots, userPreferences, rnd)
  /\ toast' = "Auto-selected top 8 recommended spots based on your preferences!"
  /\ scores' = [i \in 1..Len(spots) |-> scoreSpot(spots[i], userPreferences, rnd[i])]
  /\ onSuccessCalled' = FALSE
  /\ toggled' = 0
  /\ UNCHANGED <<open, itineraryName, loading, spots, fetchingSpots, userPreferences,
                 spotFetches, prefFetches, inserts, sessionEnd>>
  /\ UNCHANGED emailVars

\* the cards that call toggleSpot: every spot on the manual tab once the
\* fetch has ended, and the selected spots (Remove) on the auto tab
Clickable(spotId) ==
  /\ \E i \in 1..Len(spots) : spots[i].id = spotId
  /\ ~fetchingSpots \/ spotId \in selectedSpots

toggleSpot(spotId) ==
  /\ open
  /\ Clickable(spotId)
  /\ selectedSpots' = ToggleSet(selectedSpots, spotId)
  /\ toggled' = spotId
  /\ toast' = "none"
  /\ onSuccessCalled' = FALSE
  /\ scores' = <<>>
  /\ UNCHANGED <<open, itineraryName, loading, spots, fetchingSpots, userPreferences,
                 spotFetches, prefFetches, inserts, sessionEnd>>
  /\ UNCHANGED emailVars

\* a mutant of NameMissing: the name is tested without trim()
NameMissingUntrimmed == itineraryName = <<>>

\* the two checks of handleCreateItinerary
NameMissing == Trim(itineraryName) = <<>>
SelectionMissing == Cardinality(selectedSpots) = 0

\* a mutant of CreateEnabled: the button is not disabled while loading
CreateEnabledWhileLoading == open

\* the Create Itinerary button is rendered in the open dialog, disabled={loading}
CreateEnabled == open /\ ~loading

\* the Create Itinerary button, disabled while loading: handleCreateItinerary
\* up to its await
handleCreateItinerary ==
  /\ CreateEnabled
  /\ \/ /\ NameMissing
        /\ Shows("Please enter an itinerary name")
        /\ UNCHANGED <<loading, inserts>>
     \/ /\ ~NameMissing
        /\ SelectionMissing
        /\ Shows("Please select at least one spot")
        /\ UNCHANGED <<loading, inserts>>
     \/ /\ ~NameMissing
        /\ ~SelectionMissing
        /\ loading' = TRUE
        /\ inserts' = inserts \cup {ItineraryRow(itineraryName, spots, selectedSpots)}
        /\ Silent
  /\ UNCHANGED <<open, itineraryName, spots, selectedSpots, fetchingSpots,
                 userPreferences, spotFetches, prefFetches, sessionEnd>>
  /\ UNCHANGED emailVars

\* a mutant of InsertFailed: the error path resets the form as success does
InsertFailedResetting(row) ==
  /\ row \in inserts
  /\ inserts' = inserts \ {row}
  /\ loading' = FALSE
  /\ Shows("Failed to create itinerary")
  /\ itineraryName' = <<>>
  /\ selectedSpots' = {}
  /\ UNCHANGED <<open, spots, fetchingSpots, userPreferences, spotFetches,
                 prefFetches, sessionEnd>>
  /\ UNCHANGED emailVars

\* handleCreateItinerary resumes with an error
InsertFailed(row) ==
  /\ row \in inserts
  /\ inserts' = inserts \ {row}
  /\ loading' = FALSE
  /\ Shows("Failed to create itinerary")
  /\ UNCHANGED <<open, itineraryName, spots, selectedSpots, fetchingSpots,
                 userPreferences, spotFetches, prefFetches, sessionEnd>>
  /\ UNCHANGED emailVars

\* a mutant of InsertSucceeded: the selection is not cleared
InsertSucceededKeepingSelection(row) ==
  /\ row \in inserts
  /\ inserts' = inserts \ {row}
  /\ loading' = FALSE
  /\ toast' = "Itinerary created successfully!"
  /\ itineraryName' = <<>>
  /\ open' = FALSE
  /\ onSuccessCalled' = TRUE
  /\ sessionEnd' = "created"
  /\ toggled' = 0
  /\ scores' = <<>>
  /\ UNCHANGED <<spots, selectedSpots, fetchingSpots, userPreferences, spotFetches,
                 prefFetches>>
  /\ UNCHANGED emailVars

\* handleCreateItinerary resumes without an error
InsertSucceeded(row) ==
  /\ row \in inserts
  /\ inserts' = inserts \ {row}
  /\ loading' = FALSE
  /\ toast' = "Itinerary created successfully!"
  /\ itineraryName' = <<>>
  /\ selectedSpots' = {}
  /\ open' = FALSE
  /\ onSuccessCalled' = TRUE
  /\ sessionEnd' = "created"
  /\ toggled' = 0
  /\ scores' = <<>>
  /\ UNCHANGED <<spots, fetchingSpots, userPreferences, spotFetches, prefFetches>>
  /\ UNCHANGED emailVars

\* the Math.random() draws of one auto-select: one per spot when no
\* preference record is set, none read otherwise
Draws ==
  IF IsSome(userPreferences) THEN {[i \in 1..Len(spots) |-> 0]}
  ELSE [1..Len(spots) -> RandomValues]

Next ==
  \/ Open
  \/ Cancel
  \/ \E name \in Names : SetItineraryName(name)
  \/ \E hasData \in BOOLEAN, value \in ProfileValues : FetchUserPreferencesDone(hasData, value)
  \/ FetchSpotsFailed
  \/ \E data \in {None} \cup {Some(l) : l \in SpotLists} : FetchSpotsDone(data)
  \/ \E rnd \in Draws : handleAutoSelect(rnd)
  \/ \E spotId \in 1..MaxSpots : toggleSpot(spotId)
  \/ handleCreateItinerary
  \/ \E row \in inserts : InsertFailed(row)
  \/ \E row \in inserts : InsertSucceeded(row)

Spec == Init /\ [][Next]_vars

\* -------------------------------------------- the auto-select specification
\* The flow is open on a fetched candidate list and a fetched preference
\* value, no request in flight; the only step is the Auto-Select button.
InitAuto ==
  /\ open = TRUE
  /\ itineraryName = <<>>
  /\ loading = FALSE
  /\ spots \in {Rows(1, n) : n \in 0..MaxPool}
  /\ selectedSpots = {}
  /\ fetchingSpots = FALSE
  /\ userPreferences \in {None} \cup {Some(p) : p \in PreferenceRecords}
  /\ spotFetches = 0
  /\ prefFetches = 0
  /\ inserts = {}
  /\ toast = "none"
  /\ onSuccessCalled = FALSE
  /\ sessionEnd = "none"
  /\ toggled = 0
  /\ scores = <<>>
  /\ EmailIdle

NextAuto == \E rnd \in Draws : handleAutoSelect(rnd)

SpecAuto == InitAuto /\ [][NextAuto]_vars

\* ------------------------------------------- the send-verification-email function
\* corsHeaders
CorsHeaders == {"Access-Control-Allow-Origin", "Access-Control-Allow-Headers"}

\* the email_data of an auth hook payload
EmailData == [token |-> "123456", token_hash |-> "th", redirect_to |-> "https://app/",
              email_action_type |-> "signup"]

\* the request bodies: None is text that is not JSON, Some(o) is JSON text of
\* the object o, whose user and email_data can each be missing
Payloads ==
  {None} \cup {Some([user |-> u, email_data |-> d]) :
                 u \in {None, Some([email |-> "u@x"])}, d \in {None, Some(EmailData)}}

\* the requests: the method, the hook secret of the deployment ("unset",
\* "set", or "malformed": one the Webhook constructor rejects), whether the
\* signature headers verify, the body, and what resend.emails.send will do
\* ("data" and "error" are the two results it returns, "throws" a rejection)
Requests ==
  [method : {"OPTIONS", "POST"},
   secret : {"unset", "set", "malformed"},
   signatureValid : BOOLEAN,
   payload : Payloads,
   sendOutcome : {"data", "error", "throws"}]

\* new Response(null, { headers: corsHeaders })
PreflightResponse == [status |-> 200, body |-> <<>>, headers |-> CorsHeaders]

\* new Response(JSON.stringify(emailResponse), { status: 200, ... })
SendResultResponse(result) ==
  [status |-> 200, body |-> <<"sendResult", result>>,
   headers |-> {"Content-Type"} \cup CorsHeaders]

\* new Response(JSON.stringify({ error: error.message }), { status: 500, ... })
ErrorResponse(message) ==
  [status |-> 500, body |-> <<"error", message>>,
   headers |-> {"Content-Type"} \cup CorsHeaders]

\* a mutant of WebhookStep: a failed verification is thrown on
WebhookStepRethrowing(req) ==
  IF req.secret = "unset"
  THEN [thrown |-> None, verification |-> "none", logs |-> <<>>]
  ELSE IF req.secret = "malformed"
  THEN [thrown |-> Some("invalid secret"), verification |-> "none", logs |-> <<>>]
  ELSE IF req.signatureValid
  THEN [thrown |-> None, verification |-> "passed", logs |-> <<>>]
  ELSE [thrown |-> Some("verification failed"), verification |-> "failed",
        logs |-> <<"Webhook verification failed">>]

\* if (hookSecret) { new Webhook(hookSecret); try { wh.verify } catch { log } }:
\* the constructor is outside the inner try, verify inside it
WebhookStep(req) ==
  IF req.secret = "unset"
  THEN [thrown |-> None, verification |-> "none", logs |-> <<>>]
  ELSE IF req.secret = "malformed"
  THEN [thrown |-> Some("invalid secret"), verification |-> "none", logs |-> <<>>]
  ELSE IF req.signatureValid
  THEN [thrown |-> None, verification |-> "passed", logs |-> <<>>]
  ELSE [thrown |-> None, verification |-> "failed",
        logs |-> <<"Webhook verification failed">>]

\* JSON.parse(payload) and the destructuring of user and email_data: the
\* error thrown, None if none (a missing user destructures to undefined)
ParseStep(payload) ==
  IF payload = None THEN Some("not JSON")
  ELSE IF Get(payload).email_data = None THEN Some("cannot destructure email_data")
  ELSE None

\* verificationLink and the fields of the template that vary
RenderTemplate(data) ==
  [link |-> <<"SUPABASE_URL", "/auth/v1/verify?token=", data.token_hash, "&type=",
              data.email_action_type, "&redirect_to=", data.redirect_to>>,
   code |-> data.token]

\* the catch of the handler: the error is logged and answered with 500
Throws(message, logged) ==
  /\ logs' = logged \o <<"Error sending verification email">>
  /\ response' = Some(ErrorResponse(message))
  /\ pc' = "done"

\* a request has reached the function; the component is as constructed
InitEmail ==
  /\ open = FALSE
  /\ itineraryName = <<>>
  /\ loading = FALSE
  /\ spots = <<>>
  /\ selectedSpots = {}
  /\ fetchingSpots = FALSE
  /\ userPreferences = None
  /\ spotFetches = 0
  /\ prefFetches = 0
  /\ inserts = {}
  /\ toast = "none"
  /\ onSuccessCalled = FALSE
  /\ sessionEnd = "none"
  /\ toggled = 0
  /\ scores = <<>>
  /\ request \in {Some(r) : r \in Requests}
  /\ pc = "received"
  /\ verification = "none"
  /\ logs = <<>>
  /\ emailHtml = None
  /\ sends = 0
  /\ response = None

\* the handler up to its first await: the pre-flight answer, or req.text()
EmailReceive ==
  /\ pc = "received"
  /\ IF Get(request).method = "OPTIONS"
     THEN response' = Some(PreflightResponse) /\ pc' = "done"
     ELSE response' = response /\ pc' = "readingBody"
  /\ UNCHANGED <<request, verification, logs, emailHtml, sends>>
  /\ UNCHANGED modalVars

\* the handler from the body text to the call of resend.emails.send
EmailAfterText ==
  /\ pc = "readingBody"
  /\ LET req == Get(request)
         wh == WebhookStep(req)
         parseError == ParseStep(req.payload)
     IN /\ verification' = wh.verification
        /\ IF IsSome(wh.thrown)
           THEN Throws(Get(wh.thrown), wh.logs) /\ UNCHANGED <<emailHtml, sends>>
           ELSE IF IsSome(parseError)
           THEN Throws(Get(parseError), wh.logs) /\ UNCHANGED <<emailHtml, sends>>
           ELSE /\ emailHtml' = Some(RenderTemplate(Get(Get(req.payload).email_data)))
                /\ IF Get(req.payload).user = None
                   THEN Throws("cannot read email of undefined", wh.logs)
                        /\ UNCHANGED sends
                   ELSE /\ sends' = sends + 1
                        /\ logs' = wh.logs
                        /\ pc' = "sending"
                        /\ UNCHANGED response
  /\ UNCHANGED request
  /\ UNCHANGED modalVars

\* the handler after resend.emails.send settled
EmailAfterSend ==
  /\ pc = "sending"
  /\ IF Get(request).sendOutcome = "throws"
     THEN Throws("send failed", logs)
     ELSE /\ logs' = Append(logs, "Verification email sent successfully")
          /\ response' = Some(SendResultResponse(Get(request).sendOutcome))
          /\ pc' = "done"
  /\ UNCHANGED <<request, verification, emailHtml, sends>>
  /\ UNCHANGED modalVars

NextEmail == EmailReceive \/ EmailAfterText \/ EmailAfterSend

SpecEmail == InitEmail /\ [][NextEmail]_vars

\* ------------------------------------------------------------------ claims
SetOf(list) == {list[i] : i \in 1..Len(list)}
SpotIds(list) == {list[i].id : i \in 1..Len(list)}
AutoSelected == toast = "Auto-selected top 8 recommended spots based on your preferences!"
CreateRejected ==
  toast \in {"Please enter an itinerary name", "Please select at least one spot"}

\* C1: every insert in flight was sent with a name that is non-empty after
\* trimming and a selection of at least one identifier; no step taken while the
\* name is blank or the selection is empty sends an insert; and a step that
\* shows a validation message leaves name, selection, loading flag and the
\* inserts in flight unchanged.
C1_RejectedBeforeInsert ==
  /\ [](\A row \in inserts :
          Trim(row.name) # <<>> /\ Cardinality(row.selection) >= 1)
  /\ [][(Trim(itineraryName) = <<>> \/ selectedSpots = {}) => inserts' \subseteq inserts]_vars
  /\ [][CreateRejected' =>
          /\ Trim(itineraryName) = <<>> \/ selectedSpots = {}
          /\ UNCHANGED <<itineraryName, selectedSpots, loading, inserts>>]_vars

\* C1 witness: a create was rejected for a whitespace-only name while spots
\* were selected
C1_Witness ==
  /\ toast = "Please enter an itinerary name"
  /\ itineraryName = <<" ">>
  /\ selectedSpots # {}

\* C2: the selected_categories of every inserted row holds exactly the
\* category tags of the spots of the row's spots list, each once.
C2_CategoriesAreUnion ==
  \A row \in inserts :
    /\ SetOf(row.selected_categories)
         = UNION {SetOf(row.spots[i].category) : i \in 1..Len(row.spots)}
    /\ \A i, j \in 1..Len(row.selected_categories) :
         row.selected_categories[i] = row.selected_categories[j] => i = j

\* C2 witness: a row in flight whose two spots share a category tag
C2_Witness ==
  \E row \in inserts :
    /\ Len(row.spots) = 2
    /\ SetOf(row.spots[1].category) \cap SetOf(row.spots[2].category) # {}

\* C3: after an auto-select the selection holds min(8, pool size) identifiers
\* of the candidate list, and no candidate left out scored strictly more than
\* a candidate taken.
C3_TopScoring ==
  AutoSelected =>
    /\ Cardinality(selectedSpots) = (IF Len(spots) < 8 THEN Len(spots) ELSE 8)
    /\ selectedSpots \subseteq SpotIds(spots)
    /\ \A i, j \in 1..Len(spots) :
         (spots[i].id \in selectedSpots /\ spots[j].id \notin selectedSpots)
           => scores[j] <= scores[i]

\* C3 witness: an auto-select over more than 8 candidates that left out a
\* candidate placed before a selected one in the list
C3_Witness ==
  /\ AutoSelected
  /\ Len(spots) > 8
  /\ \E i, j \in 1..Len(spots) :
       i < j /\ spots[i].id \notin selectedSpots /\ spots[j].id \in selectedSpots

\* the preferred activities of the preference record, when it has the field
HasActivities == IsSome(userPreferences) /\ IsSome(Get(userPreferences).preferredActivities)
Activities == Get(Get(userPreferences).preferredActivities)

\* tag contains activity, both lower-cased
TagHit(tag, activity) == StrIncludes(ToLowerCase(tag), ToLowerCase(activity))

\* the part of the score of the i-th spot that the activity signal gave
ActivityPart(i) ==
  scores[i] - BudgetScore(spots[i], Get(userPreferences))
            - SceneryScore(spots[i], Get(userPreferences))
            - HiddenGemScore(spots[i], Get(userPreferences))
            - RatingScore(spots[i])

\* C4 as stated: with no preference record, or with a record holding none of
\* the recognized fields, every score is in [0, 1).
C4_Original ==
  (AutoSelected /\ userPreferences \in {None, Some(NoPreferences)})
    => \A i \in 1..Len(spots) : 0 <= scores[i] /\ scores[i] < Scale

\* C4: with no preference record every score is in [0, 1); with a record that
\* holds none of the recognized fields the score is rating / 2, and 0 for a
\* spot without a rating.
C4_RandomOnlyWhenUnset ==
  /\ (AutoSelected /\ userPreferences = None)
       => \A i \in 1..Len(spots) : 0 <= scores[i] /\ scores[i] < Scale
  /\ (AutoSelected /\ userPreferences = Some(NoPreferences))
       => \A i \in 1..Len(spots) :
            scores[i] * 2 = (IF spots[i].rating = None THEN 0 ELSE Get(spots[i].rating)) * Scale

\* C4 witness: a rated spot scored on the random path
C4_Witness ==
  /\ AutoSelected
  /\ userPreferences = None
  /\ \E i \in 1..Len(spots) : spots[i].rating = Some(5) /\ scores[i] = 1

\* C5 as stated: the activity part of a score is 3 points for every pair
\* (preferred activity, category tag) where the tag contains the activity.
C5_Original ==
  (AutoSelected /\ HasActivities) =>
    \A i \in 1..Len(spots) :
      ActivityPart(i) =
        3 * Scale * Cardinality({<<k, j>> \in (1..Len(Activities)) \X (1..Len(spots[i].category)) :
                                   TagHit(spots[i].category[j], Activities[k])})

\* C5: the activity part of a score is 3 points for every preferred activity
\* (every entry of the list) that at least one category tag of the spot
\* contains, case-insensitively.
C5_ThreePerMatchedActivity ==
  (AutoSelected /\ HasActivities) =>
    \A i \in 1..Len(spots) :
      ActivityPart(i) =
        3 * Scale * Cardinality({k \in 1..Len(Activities) :
                                   \E j \in 1..Len(spots[i].category) :
                                     TagHit(spots[i].category[j], Activities[k])})

\* C5 witness: a spot scored with a preferred activity that two of its
\* category tags contain, one of them in another case
C5_Witness ==
  /\ AutoSelected
  /\ HasActivities
  /\ \E i \in 1..Len(spots), k \in 1..Len(Activities) :
       Cardinality({j \in 1..Len(spots[i].category) :
                      TagHit(spots[i].category[j], Activities[k])}) = 2

\* C6 as stated: no insert is in flight while a spot fetch or a preference
\* fetch is in flight.
C6_Original == inserts # {} => (spotFetches = 0 /\ prefFetches = 0)

\* C6: an insert is sent only by the Create button, with the flow open and no
\* insert in flight; the step that sends it completes no fetch and starts
\* none; at most one insert is in flight, and the loading flag is true while
\* it is.
C6_GatedByCreateButton ==
  /\ [](inserts # {} => (loading /\ Cardinality(inserts) = 1))
  /\ [][~(inserts' \subseteq inserts) =>
          /\ open /\ ~loading /\ inserts = {}
          /\ UNCHANGED <<open, spots, fetchingSpots, userPreferences, spotFetches,
                         prefFetches>>]_vars

\* C6 witness: an insert in flight together with a spot fetch
C6_Witness == inserts # {} /\ spotFetches > 0 /\ fetchingSpots

\* C7 as stated: whenever the flow is opened the selection is empty.
C7_Original == [][(~open /\ open') => selectedSpots' = {}]_vars

\* C7: when the flow is opened after a session that a successful create
\* closed, the selection is empty; closing the flow with Cancel leaves the
\* selection as it is.
C7_ClearedOnSuccessOnly ==
  /\ [][(~open /\ open' /\ sessionEnd = "created") => selectedSpots' = {}]_vars
  /\ [][(open /\ ~open' /\ sessionEnd' = "cancelled") => selectedSpots' = selectedSpots]_vars

\* C7 witness: the flow opened again after a successful create
C7_Witness ==
  /\ open
  /\ sessionEnd = "created"
  /\ selectedSpots = {}
  /\ spots # <<>>

\* C8 as stated: when the insert fails, name and selection are those of the
\* row submitted, loading is false, the flow is open, onSuccess is not called
\* and no insert is in flight.
C8_Original ==
  [][toast' = "Failed to create itinerary" =>
       \A row \in inserts \ inserts' :
         /\ itineraryName' = row.name
         /\ selectedSpots' = row.selection
         /\ ~loading' /\ open' /\ ~onSuccessCalled' /\ inserts' = {}]_vars

\* C8: the step that reports a failed insert leaves name, selection, candidate
\* list and open flag as they were before it, sets loading to false, does not
\* call onSuccess and leaves no insert in flight.
C8_FailureKeepsState ==
  [][toast' = "Failed to create itinerary" =>
       /\ UNCHANGED <<itineraryName, selectedSpots, spots, open>>
       /\ ~loading' /\ ~onSuccessCalled' /\ inserts' = {}]_vars

\* C8 witness: a failed insert reported with the flow open, the name and the
\* selection still there
C8_Witness ==
  /\ toast = "Failed to create itinerary"
  /\ open /\ ~loading /\ inserts = {}
  /\ Trim(itineraryName) # <<>> /\ selectedSpots # {}

\* C9: a toggle flips the membership of its identifier and of no other, and a
\* second toggle of the same identifier gives back the set the first started
\* from.
C9_ToggleInvolution ==
  [][toggled' # 0 =>
       /\ toggled' \in selectedSpots' <=> toggled' \notin selectedSpots
       /\ \A id \in (selectedSpots \cup selectedSpots') \ {toggled'} :
            id \in selectedSpots' <=> id \in selectedSpots
       /\ ToggleSet(selectedSpots', toggled') = selectedSpots]_vars

\* C9 witness: a toggle that removed an identifier and left another selected
C9_Witness == toggled # 0 /\ toggled \notin selectedSpots /\ selectedSpots # {}

\* C10 as stated: after a failed spot fetch the candidate list is empty and
\* the fetching flag is false.
C10_Original ==
  toast = "Failed to fetch tourist spots" => (spots = <<>> /\ ~fetchingSpots)

\* C10: a failed spot fetch is reported by a notification, leaves the
\* candidate list and the selection as they were, and sets the fetching flag to
\* false.
C10_FailedFetchKeepsList ==
  [][toast' = "Failed to fetch tourist spots" =>
       /\ UNCHANGED <<spots, selectedSpots>>
       /\ ~fetchingSpots'
       /\ spotFetches' = spotFetches - 1]_vars

\* C10 witness: a failed fetch reported while the list of an earlier fetch is
\* still shown
C10_Witness ==
  toast = "Failed to fetch tourist spots" /\ spots # <<>> /\ ~fetchingSpots

\* C12 as stated: every row in flight carries at least one spot, and its
\* spots are spots whose identifier was in the selection set the handler read.
C12_Original ==
  \A row \in inserts :
    /\ Len(row.spots) >= 1
    /\ SpotIds(row.spots) \subseteq row.selection

\* the request being handled, and its parts
Req == Get(request)
Answered == pc = "done"
PayloadComplete ==
  /\ Req.payload # None
  /\ Get(Req.payload).user # None
  /\ Get(Req.payload).email_data # None

\* what a POST request is answered with when nothing before the send throws
AnswerAfterSend ==
  IF Req.sendOutcome = "throws"
  THEN [status |-> 500, body |-> <<"error", "send failed">>,
        headers |-> {"Content-Type"} \cup CorsHeaders]
  ELSE [status |-> 200, body |-> <<"sendResult", Req.sendOutcome>>,
        headers |-> {"Content-Type"} \cup CorsHeaders]

\* C11: a request whose signature failed verification has the failure logged
\* and is then handled as one whose signature verified: with a body that
\* parses to the hook payload (JSON holding user and email_data) the template
\* is rendered, the sender is called once and the answer is 200 with the send
\* result, or 500 with the error if the send throws; with any other body the
\* sender is not called and the answer is 500, for both kinds of signature. An
\* OPTIONS request reaches neither verification nor the sender.
C11_VerificationNonFatal ==
  /\ (Answered /\ Req.method = "OPTIONS")
       => /\ verification = "none" /\ sends = 0 /\ logs = <<>>
          /\ response = Some([status |-> 200, body |-> <<>>, headers |-> CorsHeaders])
  /\ (Answered /\ Req.method = "POST" /\ verification = "failed")
       => Head(logs) = "Webhook verification failed"
  /\ (Answered /\ Req.method = "POST" /\ verification \in {"failed", "passed"})
       => IF PayloadComplete
          THEN emailHtml # None /\ sends = 1 /\ response = Some(AnswerAfterSend)
          ELSE /\ sends = 0
               /\ Get(response).status = 500
               /\ Get(response).body[1] = "error"

\* C11 witness: a request with a failing signature answered 200 after one
\* call of the sender
C11_Witness ==
  /\ Answered
  /\ verification = "failed"
  /\ sends = 1
  /\ Get(response).status = 200

====
